---- MODULE Spec2Model ----
(***************************************************************************)
(* The three batch scripts of the repository, each a single sequential     *)
(* process:                                                                *)
(*   merge_pdf/merge_into_n_pdfs.py          chunkify + merge_pdfs + main  *)
(*   download_github_issues.py               main                          *)
(*   merge_markdown_from_google_drive/merge_markdown.py                    *)
(*                                safe_download_md + merge_folder + main   *)
(* One run executes one script (variable script); the remote services and  *)
(* the file system are the environment.  An output file is modelled by the *)
(* sequence of blocks written to it.                                       *)
(***************************************************************************)
EXTENDS Integers, Sequences, FiniteSets, TLC

\* ---------------------------------------------------------------- bounds
MaxPdfs == 15
MaxOutputs == 5
MaxIssues == 7
MaxFilesWanted == 4
MaxComments == 1
MaxFolders == 2
MaxMdFiles == 3

\* ------------------------------------------------------ program constants
MAX_RETRIES == 3
TRANSIENT_CODES == {500, 502, 503, 504}

\* HTTP statuses the Drive API is let to answer with; 0 stands for a response
\* object without a status attribute (getattr(..., 'status', None)).
Statuses == {0, 404} \cup TRANSIENT_CODES

VARIABLES
    script,        \* which of the three scripts this run executes
    pc,            \* position of the process in the script
    files,         \* the output directory: file index -> blocks written
    processed,     \* files whose bucket was processed to the end and closed
    \* merge_into_n_pdfs.py
    pdf_files, n_outputs, n_chunks, base, rem, chunks, start, i, idx,
    \* download_github_issues.py  (shares the loop variables i and idx)
    issues, FILES_WANTED, per_file, chunk, iss,
    \* merge_markdown.py
    top_folders, folder, items, item, attempt, outcomes, waits, text, skipped

vars == << script, pc, files, processed,
           pdf_files, n_outputs, n_chunks, base, rem, chunks, start, i, idx,
           issues, FILES_WANTED, per_file, chunk, iss,
           top_folders, folder, items, item, attempt, outcomes, waits, text, skipped >>

pdfVars == << pdf_files, n_outputs, n_chunks, base, rem, chunks, start >>
issueVars == << issues, FILES_WANTED, per_file, chunk, iss >>
mdVars == << top_folders, folder, items, item, attempt, outcomes, waits, text, skipped >>

\* ---------------------------------------------------------------- helpers
Min(a, b) == IF a < b THEN a ELSE b
Max(a, b) == IF a > b THEN a ELSE b

\* Python's s[a:b] for 0 <= a (0-based, end exclusive, clamped to the length).
SliceOverlap(s, a, b) == SubSeq(s, Max(a, 1), Min(b, Len(s)))
Slice(s, a, b) == SubSeq(s, a + 1, Min(b, Len(s)))

\* list(enumeration) of n items, in enumeration order, each item distinct.
Enumerated(n) == [p \in 1..n |-> p]

\* Blocks of an output file.
Sep == [kind |-> "sep", id |-> 0]
Item(n) == [kind |-> "item", id |-> n]
Comment(n) == [kind |-> "comment", id |-> n]

RECURSIVE Flatten(_)
Flatten(ss) == IF ss = << >> THEN << >> ELSE Head(ss) \o Flatten(Tail(ss))

RECURSIVE Select(_, _)
Select(s, k) ==
    IF s = << >> THEN << >>
    ELSE (IF Head(s).kind = k THEN << Head(s).id >> ELSE << >>) \o Select(Tail(s), k)

\* The items written to a file, in file order, and the number of separators.
ItemsOf(content) == Select(content, "item")
NumSeps(content) == Len(Select(content, "sep"))

\* ------------------------------------------------------------------- Init
Init ==
    /\ script \in {"merge_into_n_pdfs", "download_github_issues", "merge_markdown"}
    /\ pc = "start"
    /\ files = << >>
    /\ processed = {}
    /\ pdf_files = << >> /\ n_outputs = 0 /\ n_chunks = 0 /\ base = 0 /\ rem = 0
    /\ chunks = << >> /\ start = 0 /\ i = 0 /\ idx = 0
    /\ issues = << >> /\ FILES_WANTED = 0 /\ per_file = 0 /\ chunk = << >> /\ iss = 0
    /\ top_folders = 0 /\ folder = 0 /\ items = << >> /\ item = 0 /\ attempt = 0
    /\ outcomes = << >> /\ waits = << >> /\ text = "None" /\ skipped = {}

\* ===================================================== merge_into_n_pdfs.py
\* main, lines 50-56: the sorted glob and the command line's n.
PdfGlob ==
    /\ script = "merge_into_n_pdfs" /\ pc = "start"
    /\ \E n \in 0..MaxPdfs, k \in 0..MaxOutputs :
        /\ pdf_files' = Enumerated(n)
        /\ n_outputs' = k
        /\ pc' = IF n = 0 THEN "done" ELSE "chunkify"
    /\ UNCHANGED << script, files, processed, n_chunks, base, rem, chunks, start, i, idx >>
    /\ UNCHANGED issueVars /\ UNCHANGED mdVars

\* chunkify, lines 25-28.
NChunks(n, len) == Max(1, Min(n, len))
ChunkifyEnter ==
    /\ script = "merge_into_n_pdfs" /\ pc = "chunkify"
    /\ n_chunks' = NChunks(n_outputs, Len(pdf_files))
    /\ base' = Len(pdf_files) \div n_chunks'
    /\ rem' = Len(pdf_files) % n_chunks'
    /\ chunks' = << >> /\ start' = 0 /\ i' = 0
    /\ pc' = "chunk_loop"
    /\ UNCHANGED << script, files, processed, pdf_files, n_outputs, idx >>
    /\ UNCHANGED issueVars /\ UNCHANGED mdVars

\* chunkify, line 30: end = start + base + (1 if i < rem else 0).
ChunkEndOffByOne(st, b, r, k) == st + b + (IF k <= r THEN 1 ELSE 0)
ChunkEnd(st, b, r, k) == st + b + (IF k < r THEN 1 ELSE 0)

\* chunkify, lines 29-32: one iteration of the loop.
ChunkifyStep ==
    /\ script = "merge_into_n_pdfs" /\ pc = "chunk_loop" /\ i < n_chunks
    /\ LET end == ChunkEnd(start, base, rem, i) IN
        /\ chunks' = Append(chunks, Slice(pdf_files, start, end))
        /\ start' = end
    /\ i' = i + 1
    /\ UNCHANGED << script, pc, files, processed, pdf_files, n_outputs, n_chunks, base, rem, idx >>
    /\ UNCHANGED issueVars /\ UNCHANGED mdVars

\* chunkify, line 33, back in main at line 58.
ChunkifyReturn ==
    /\ script = "merge_into_n_pdfs" /\ pc = "chunk_loop" /\ i >= n_chunks
    /\ idx' = 1
    /\ pc' = "merge"
    /\ UNCHANGED << script, files, processed, i >>
    /\ UNCHANGED pdfVars /\ UNCHANGED issueVars /\ UNCHANGED mdVars

\* main, lines 58-61 with merge_pdfs, lines 36-45: the writer collects the
\* group's pages in memory and the output file is written in one go.
MergePdfs ==
    /\ script = "merge_into_n_pdfs" /\ pc = "merge" /\ idx <= Len(chunks)
    /\ files' = (idx :> [p \in 1..Len(chunks[idx]) |-> Item(chunks[idx][p])]) @@ files
    /\ processed' = processed \cup {idx}
    /\ idx' = idx + 1
    /\ UNCHANGED << script, pc, i >>
    /\ UNCHANGED pdfVars /\ UNCHANGED issueVars /\ UNCHANGED mdVars

\* main, line 63.
PdfDone ==
    /\ script = "merge_into_n_pdfs" /\ pc = "merge" /\ idx > Len(chunks)
    /\ pc' = "done"
    /\ UNCHANGED << script, files, processed, i, idx >>
    /\ UNCHANGED pdfVars /\ UNCHANGED issueVars /\ UNCHANGED mdVars

PdfNext == PdfGlob \/ ChunkifyEnter \/ ChunkifyStep \/ ChunkifyReturn \/ MergePdfs \/ PdfDone

\* ================================================ download_github_issues.py
\* main, lines 20-39: the search either fails (GithubException, SystemExit),
\* finds nothing (SystemExit) or returns the issues in creation order.
\* FILES_WANTED is the module-level configuration value of line 10.
IssuesSearch ==
    /\ script = "download_github_issues" /\ pc = "start"
    /\ \/ \E n \in 1..MaxIssues, k \in 1..MaxFilesWanted :
            /\ issues' = Enumerated(n)
            /\ FILES_WANTED' = k
            /\ pc' = "retrieved"
       \/ /\ pc' = "exit"
          /\ UNCHANGED << issues, FILES_WANTED >>
    /\ UNCHANGED << script, files, processed, per_file, chunk, iss, i, idx >>
    /\ UNCHANGED pdfVars /\ UNCHANGED mdVars

\* main, line 41: per_file = math.ceil(len(issues) / FILES_WANTED).
PerFileFloor(total, k) == total \div k
PerFile(total, k) == (total + k - 1) \div k

\* main, lines 41-44: per_file, mkdir, and the range's first value.
IssuesPerFile ==
    /\ script = "download_github_issues" /\ pc = "retrieved"
    /\ per_file' = PerFile(Len(issues), FILES_WANTED)
    /\ i' = 0
    /\ pc' = "issues_loop"
    /\ UNCHANGED << script, files, processed, issues, FILES_WANTED, chunk, iss, idx >>
    /\ UNCHANGED pdfVars /\ UNCHANGED mdVars

\* main, lines 44-49: the next slice, its file index, and the file opened for
\* writing (which creates it empty).
IssuesOpen ==
    /\ script = "download_github_issues" /\ pc = "issues_loop" /\ i < Len(issues)
    /\ chunk' = Slice(issues, i, i + per_file)
    /\ idx' = (i \div per_file) + 1
    /\ files' = (idx' :> << >>) @@ files
    /\ iss' = 1
    /\ pc' = "issue_write"
    /\ UNCHANGED << script, processed, issues, FILES_WANTED, per_file, i >>
    /\ UNCHANGED pdfVars /\ UNCHANGED mdVars

\* main, lines 50-61: the issue's block, which opens with "\n\n---\n".
IssueBlock(n) == << Sep, Item(n) >>
IssuesWrite ==
    /\ script = "download_github_issues" /\ pc = "issue_write" /\ iss <= Len(chunk)
    /\ files' = [files EXCEPT ![idx] = @ \o IssueBlock(chunk[iss])]
    /\ pc' = "issue_comments"
    /\ UNCHANGED << script, processed, i, idx >>
    /\ UNCHANGED issueVars /\ UNCHANGED pdfVars /\ UNCHANGED mdVars

\* main, lines 62-67: the issue's comments are fetched and written; the fetch
\* is a remote call that may raise, which nothing catches: the with statement
\* closes the file as it is and the script dies.
IssuesComments ==
    /\ script = "download_github_issues" /\ pc = "issue_comments"
    /\ \/ \E c \in 0..MaxComments :
            /\ files' = [files EXCEPT ![idx] = @ \o [p \in 1..c |-> Comment(chunk[iss])]]
            /\ iss' = iss + 1
            /\ pc' = "issue_write"
       \/ /\ pc' = "fatal"
          /\ UNCHANGED << files, iss >>
    /\ UNCHANGED << script, processed, i, idx, issues, FILES_WANTED, per_file, chunk >>
    /\ UNCHANGED pdfVars /\ UNCHANGED mdVars

\* main, lines 49 and 68, and the range's next value: the with block ends,
\* the file is closed and reported.
IssuesClose ==
    /\ script = "download_github_issues" /\ pc = "issue_write" /\ iss > Len(chunk)
    /\ processed' = processed \cup {idx}
    /\ i' = i + per_file
    /\ pc' = "issues_loop"
    /\ UNCHANGED << script, files, idx >>
    /\ UNCHANGED issueVars /\ UNCHANGED pdfVars /\ UNCHANGED mdVars

\* main, line 70.
IssuesDone ==
    /\ script = "download_github_issues" /\ pc = "issues_loop" /\ i >= Len(issues)
    /\ pc' = "done"
    /\ UNCHANGED << script, files, processed, i, idx >>
    /\ UNCHANGED issueVars /\ UNCHANGED pdfVars /\ UNCHANGED mdVars

IssuesNext ==
    IssuesSearch \/ IssuesPerFile \/ IssuesOpen \/ IssuesWrite \/ IssuesComments
        \/ IssuesClose \/ IssuesDone

\* ========================================================= merge_markdown.py
\* What one call of GetContentString does, as safe_download_md sees it.
Ok == [kind |-> "ok", status |-> 0]
HttpError(s) == [kind |-> "HttpError", status |-> s]
OtherException == [kind |-> "Exception", status |-> 0]

\* main, lines 105-118: the top folders are listed; none ends the run.
MdListFolders ==
    /\ script = "merge_markdown" /\ pc = "start"
    /\ \E n \in 0..MaxFolders :
        /\ top_folders' = n
        /\ folder' = 1
        /\ pc' = IF n = 0 THEN "exit" ELSE "folders_loop"
    /\ UNCHANGED << script, files, processed, i, idx >>
    /\ UNCHANGED << items, item, attempt, outcomes, waits, text, skipped >>
    /\ UNCHANGED pdfVars /\ UNCHANGED issueVars

\* merge_folder, lines 85-93: the folder's .md files are listed; an empty
\* folder is skipped with no file, otherwise the output file is opened for
\* writing (created empty).
MdMergeFolder ==
    /\ script = "merge_markdown" /\ pc = "folders_loop" /\ folder <= top_folders
    /\ \E n \in 0..MaxMdFiles :
        /\ items' = Enumerated(n)
        /\ IF n = 0
           THEN /\ folder' = folder + 1
                /\ UNCHANGED << files, item, pc >>
           ELSE /\ files' = (folder :> << >>) @@ files
                /\ item' = 1
                /\ pc' = "items_loop"
                /\ UNCHANGED folder
    /\ UNCHANGED << script, processed, i, idx, top_folders >>
    /\ UNCHANGED << attempt, outcomes, waits, text, skipped >>
    /\ UNCHANGED pdfVars /\ UNCHANGED issueVars

\* merge_folder, lines 94-95, and safe_download_md, line 66: the call for the
\* next item starts with attempt 1.
MdCallDownload ==
    /\ script = "merge_markdown" /\ pc = "items_loop" /\ item <= Len(items)
    /\ attempt' = 1
    /\ outcomes' = << >>
    /\ waits' = << >>
    /\ text' = "None"
    /\ pc' = "download"
    /\ UNCHANGED << script, files, processed, i, idx, top_folders, folder, items, item, skipped >>
    /\ UNCHANGED pdfVars /\ UNCHANGED issueVars

\* safe_download_md, line 66: for attempt in range(1, MAX_RETRIES + 1).
AttemptRangeShort == 1..(MAX_RETRIES - 1)
AttemptRange == 1..MAX_RETRIES

\* safe_download_md, line 70: the status is one of TRANSIENT_CODES.
IsTransientAnyStatus(s) == s >= 400
IsTransient(s) == s \in TRANSIENT_CODES

\* safe_download_md, lines 71 and 78: the back-off, 2 ** attempt seconds.
BackOff(n) == 2 ^ n

\* safe_download_md, line 77: another exception is retried before the last
\* attempt only.
RetryOther(n) == n < MAX_RETRIES

\* safe_download_md, lines 67-80: one attempt, with what its outcome leads
\* to: the text returned, a sleep and the next attempt, or the exception
\* re-raised.  Nothing up to main catches it: merge_folder's with statement
\* closes the file as it is and the script dies.
MdAttempt ==
    /\ script = "merge_markdown" /\ pc = "download" /\ attempt \in AttemptRange
    /\ \/ /\ outcomes' = Append(outcomes, Ok)
          /\ text' = "text"
          /\ pc' = "returned"
          /\ UNCHANGED << attempt, waits >>
       \/ \E s \in Statuses :
            /\ outcomes' = Append(outcomes, HttpError(s))
            /\ IF IsTransient(s)
               THEN /\ waits' = Append(waits, BackOff(attempt))
                    /\ attempt' = attempt + 1
                    /\ UNCHANGED pc
               ELSE /\ pc' = "fatal"
                    /\ UNCHANGED << attempt, waits >>
            /\ UNCHANGED text
       \/ /\ outcomes' = Append(outcomes, OtherException)
          /\ IF RetryOther(attempt)
             THEN /\ waits' = Append(waits, BackOff(attempt))
                  /\ attempt' = attempt + 1
                  /\ UNCHANGED pc
             ELSE /\ pc' = "fatal"
                  /\ UNCHANGED << attempt, waits >>
          /\ UNCHANGED text
    /\ UNCHANGED << script, files, processed, i, idx, top_folders, folder, items, item, skipped >>
    /\ UNCHANGED pdfVars /\ UNCHANGED issueVars

\* safe_download_md, line 81: the loop ran out, None is returned.
MdReturnNone ==
    /\ script = "merge_markdown" /\ pc = "download" /\ attempt \notin AttemptRange
    /\ text' = "None"
    /\ pc' = "returned"
    /\ UNCHANGED << script, files, processed, i, idx >>
    /\ UNCHANGED << top_folders, folder, items, item, attempt, outcomes, waits, skipped >>
    /\ UNCHANGED pdfVars /\ UNCHANGED issueVars

\* merge_folder, line 99: the item's block, which opens with SEPARATOR.
MdBlock(n) == << Sep, Item(n) >>

\* merge_folder, lines 96-99: the item is skipped or written; the locals of
\* the finished call of safe_download_md are gone.
MdWriteOrSkip ==
    /\ script = "merge_markdown" /\ pc = "returned"
    /\ IF text = "None"
       THEN /\ skipped' = skipped \cup {<< folder, items[item] >>}
            /\ UNCHANGED files
       ELSE /\ files' = [files EXCEPT ![folder] = @ \o MdBlock(items[item])]
            /\ UNCHANGED skipped
    /\ item' = item + 1
    /\ attempt' = 0 /\ outcomes' = << >> /\ waits' = << >> /\ text' = "None"
    /\ pc' = "items_loop"
    /\ UNCHANGED << script, processed, i, idx, top_folders, folder, items >>
    /\ UNCHANGED pdfVars /\ UNCHANGED issueVars

\* merge_folder, lines 93 and 101, back in main at line 118: the with block
\* ends, the file is closed and reported.
MdCloseFolder ==
    /\ script = "merge_markdown" /\ pc = "items_loop" /\ item > Len(items)
    /\ processed' = processed \cup {folder}
    /\ folder' = folder + 1
    /\ pc' = "folders_loop"
    /\ UNCHANGED << script, files, i, idx >>
    /\ UNCHANGED << top_folders, items, item, attempt, outcomes, waits, text, skipped >>
    /\ UNCHANGED pdfVars /\ UNCHANGED issueVars

\* main, lines 118-119: no folder is left.
MdDone ==
    /\ script = "merge_markdown" /\ pc = "folders_loop" /\ folder > top_folders
    /\ pc' = "done"
    /\ UNCHANGED << script, files, processed, i, idx >>
    /\ UNCHANGED mdVars /\ UNCHANGED pdfVars /\ UNCHANGED issueVars

MdNext ==
    MdListFolders \/ MdMergeFolder \/ MdCallDownload \/ MdAttempt \/ MdReturnNone
        \/ MdWriteOrSkip \/ MdCloseFolder \/ MdDone

Next == PdfNext \/ IssuesNext \/ MdNext

Spec == Init /\ [][Next]_vars

\* ================================================================== claims
IsPdf == script = "merge_into_n_pdfs"
IsIssues == script = "download_github_issues"
IsMd == script = "merge_markdown"

\* chunkify has returned its buckets to main.
ChunkifyReturned == IsPdf /\ pc \in {"merge", "done"} /\ pdf_files # << >>
ChunkSizes == [c \in DOMAIN chunks |-> Len(chunks[c])]

\* The sizes the partition rule asks for: k' = min(k, total) buckets, the
\* first total mod k' of size total div k' + 1, the others of size total div k'.
FrontLoadedSizes(total, k) ==
    LET kk == Min(k, total)
        b == total \div kk
        r == total % kk
    IN  [c \in 1..kk |-> IF c <= r THEN b + 1 ELSE b]

\* C1: for a list of total >= 1 items and a requested count k >= 1, chunkify
\* returns min(k, total) buckets, the first total mod k' of them of size
\* total div k' + 1 and the others of size total div k'; 10 items in 3 buckets
\* are [4,3,3], 15 in 4 are [4,4,4,3], 2 in 5 are [1,1].
C1_ChunkifyFrontLoaded ==
    (ChunkifyReturned /\ n_outputs >= 1) =>
        /\ ChunkSizes = FrontLoadedSizes(Len(pdf_files), n_outputs)
        /\ (Len(pdf_files) = 10 /\ n_outputs = 3) => ChunkSizes = << 4, 3, 3 >>
        /\ (Len(pdf_files) = 15 /\ n_outputs = 4) => ChunkSizes = << 4, 4, 4, 3 >>
        /\ (Len(pdf_files) = 2 /\ n_outputs = 5) => ChunkSizes = << 1, 1 >>

C1_Witness ==
    /\ ChunkifyReturned /\ pc = "done"
    /\ Len(pdf_files) = 15 /\ n_outputs = 4
    /\ ChunkSizes = << 4, 4, 4, 3 >>

\* The issue script's output files, in index order, as lists of issues.
IssueFileCount == Cardinality(DOMAIN files)
IssueFileItems == [f \in 1..IssueFileCount |-> ItemsOf(files[f])]
IssuesFinished == IsIssues /\ pc = "done"

RECURSIVE SumLen(_)
SumLen(ss) == IF ss = << >> THEN 0 ELSE Len(Head(ss)) + SumLen(Tail(ss))

\* C2: in the issue script, for total >= 1 issues and FILES_WANTED >= 1, the
\* sizes of the chunks written to the files sum to total and the largest and
\* the smallest differ by at most one.
C2_IssueChunksBalanced ==
    IssuesFinished =>
        /\ DOMAIN files = 1..IssueFileCount
        /\ SumLen(IssueFileItems) = Len(issues)
        /\ \A f, g \in DOMAIN files :
                Len(ItemsOf(files[f])) - Len(ItemsOf(files[g])) <= 1

\* C3: in the issue script, for total >= 1 issues and FILES_WANTED >= 1, the
\* number of files written is min(FILES_WANTED, total) and no file holds zero
\* issues.
C3_IssueFileCount ==
    IssuesFinished =>
        /\ IssueFileCount = Min(FILES_WANTED, Len(issues))
        /\ \A f \in DOMAIN files : Len(ItemsOf(files[f])) >= 1

\* C4: for every item sequence and every k >= 1, the buckets of chunkify and
\* those the issue script's slicing loop writes are contiguous slices which,
\* concatenated in bucket order, are the input sequence: every item is in
\* exactly one bucket, with no gap, overlap or reordering.
C4_BucketsCoverInput ==
    /\ (ChunkifyReturned /\ n_outputs >= 1) => Flatten(chunks) = pdf_files
    /\ (IsIssues /\ pc \in {"issues_loop", "done"}) =>
            /\ DOMAIN files = 1..IssueFileCount
            /\ Flatten(IssueFileItems) = SubSeq(issues, 1, Min(i, Len(issues)))
    /\ IssuesFinished => Flatten(IssueFileItems) = issues

C4_Witness ==
    /\ IssuesFinished
    /\ Len(issues) = 7 /\ FILES_WANTED = 3
    /\ IssueFileItems = << << 1, 2, 3 >>, << 4, 5, 6 >>, << 7 >> >>

\* C5: in every file the markdown and the issue script have written, the
\* separator stands only between two consecutive written items, never before
\* the first or after the last: n written items, n - 1 separators.
C5_SeparatorOnlyBetween ==
    (IsMd \/ IsIssues) =>
        \A f \in processed :
            files[f] # << >> =>
                /\ Head(files[f]) # Sep
                /\ files[f][Len(files[f])] # Sep
                /\ NumSeps(files[f]) = Len(ItemsOf(files[f])) - 1

\* The current call of safe_download_md is over (returned or raised).
CallEnded == IsMd /\ pc \in {"returned", "fatal"}
TransientFailure(o) == o.kind = "HttpError" /\ o.status \in TRANSIENT_CODES
AllTransient ==
    /\ outcomes # << >>
    /\ \A n \in DOMAIN outcomes : TransientFailure(outcomes[n])

\* C6: when every download attempt for an item fails with a transient error,
\* safe_download_md makes exactly MAX_RETRIES attempts and then returns None
\* to its caller; it never makes more attempts and never reports success.
C6_TransientRetryBound ==
    IsMd =>
        /\ Len(outcomes) <= MAX_RETRIES
        /\ (AllTransient /\ pc = "download" /\ attempt <= MAX_RETRIES) =>
                Len(outcomes) < MAX_RETRIES
        /\ (AllTransient /\ CallEnded) =>
                /\ Len(outcomes) = MAX_RETRIES
                /\ pc = "returned"
                /\ text = "None"

C6_Witness ==
    /\ IsMd /\ pc = "returned" /\ AllTransient
    /\ Len(outcomes) = MAX_RETRIES /\ text = "None"

\* The fetch of the current item ended in a failure.
PermanentFailure ==
    /\ CallEnded
    /\ outcomes # << >>
    /\ outcomes[Len(outcomes)].kind # "ok"

RECURSIVE Increasing(_)
Increasing(s) == Len(s) <= 1 \/ (s[1] < s[2] /\ Increasing(Tail(s)))

\* C7: in merge_folder an item whose fetch ends in a permanent failure (a
\* non-transient error on any attempt, or transient errors on all attempts)
\* is left out of the file, the items fetched are written in enumeration
\* order, and the run goes on: one item's failure never aborts it.
C7_SkipAndContinue ==
    IsMd =>
        /\ PermanentFailure => (pc = "returned" /\ text = "None")
        /\ pc # "fatal"
        /\ \A f \in DOMAIN files :
                /\ Increasing(ItemsOf(files[f]))
                /\ \A n \in 1..Len(files[f]) :
                        files[f][n].kind = "item" => << f, files[f][n].id >> \notin skipped

\* C8: when a run of the markdown or the issue script ends with a fatal error
\* raised while a bucket is processed, the only files that exist are those of
\* buckets processed to the end and closed before.
C8_NoPartialArtifact ==
    ((IsMd \/ IsIssues) /\ pc = "fatal") => DOMAIN files \subseteq processed

NonTransientHttp(o) == o.kind = "HttpError" /\ o.status \notin TRANSIENT_CODES
NonTransient(o) == NonTransientHttp(o) \/ o.kind = "Exception"

\* C9 as stated: in safe_download_md a failure outside the transient set (an
\* HttpError with a status outside TRANSIENT_CODES, or any other exception)
\* ends the fetch at once, with no wait and no retry after it.
C9_NonTransientEndsFetch ==
    IsMd =>
        \A n \in DOMAIN outcomes :
            NonTransient(outcomes[n]) =>
                /\ n = Len(outcomes)
                /\ Len(waits) = n - 1
                /\ pc = "fatal"
                /\ (\A m \in 1..(n - 1) : ~TransientFailure(outcomes[m])) => n = 1

\* C9, amended: an HttpError with a status outside TRANSIENT_CODES ends the
\* fetch at once, re-raised with no wait and no further attempt (one attempt
\* in all when it is the item's first failure).  Any other exception on an
\* attempt before the MAX_RETRIES-th is followed by a wait of 2^attempt and
\* the next attempt; on the MAX_RETRIES-th it is re-raised with no wait.
C9_NonTransientHttpEndsFetch ==
    IsMd =>
        \A n \in DOMAIN outcomes :
            /\ NonTransientHttp(outcomes[n]) =>
                    /\ n = Len(outcomes)
                    /\ Len(waits) = n - 1
                    /\ pc = "fatal"
            /\ (outcomes[n].kind = "Exception" /\ n < MAX_RETRIES) =>
                    /\ Len(waits) >= n /\ waits[n] = 2 ^ n
                    /\ pc # "fatal" \/ Len(outcomes) > n
                    /\ Len(outcomes) > n \/ (pc = "download" /\ attempt = n + 1)
            /\ (outcomes[n].kind = "Exception" /\ n = MAX_RETRIES) =>
                    /\ n = Len(outcomes)
                    /\ Len(waits) = n - 1
                    /\ pc = "fatal"

C9_Witness ==
    /\ IsMd /\ pc = "fatal"
    /\ outcomes = << HttpError(404) >>
    /\ waits = << >>

\* C10: in safe_download_md the wait after failed attempt n lasts 2^n and is
\* always followed by attempt n + 1: no wait follows the MAX_RETRIES-th
\* attempt, so an item incurs at most MAX_RETRIES - 1 waits.
C10_NoWaitAfterLastAttempt ==
    IsMd =>
        /\ \A n \in DOMAIN waits : waits[n] = 2 ^ n
        /\ Len(waits) <= MAX_RETRIES - 1
        /\ CallEnded => Len(waits) < Len(outcomes)
====
